---- MODULE Spec2Model ----
(***************************************************************************)
(* Credit-gated asynchronous generation pipeline of the B.A.I. backend.    *)
(*                                                                         *)
(* Part 1: plan/feature gating and the two-bucket credit ledger of         *)
(*         POST /create-campaign (backend/app/api/routes/marketing.py).    *)
(* Part 2: the generation entities (campaign, monthly plan, research       *)
(*         query), their launch handlers, worker tasks and the callback    *)
(*         gateway (backend/app/modules, backend/app/workers/tasks).       *)
(***************************************************************************)
EXTENDS Integers, Sequences, FiniteSets, TLC

(***************************************************************************)
(* Bounds of the exploration.                                              *)
(***************************************************************************)
MaxCredit == 2          \* largest initial balance of one credit bucket
MaxCost == 3            \* largest content_count of a create-campaign request
MaxNegCost == 1         \* content_count ranges down to -MaxNegCost
NumRequests == 2        \* create-campaign requests in flight
NumLaunches == 1        \* launch requests of the queue-backed variants
MaxPieces == 1          \* ContentPiece rows
MaxRows == 2            \* rows created through the services directly

NULL == "NULL"

Min(a, b) == IF a < b THEN a ELSE b
Max(a, b) == IF a > b THEN a ELSE b

(***************************************************************************)
(* Plan tiers and the feature matrix (backend/app/models/user.py).         *)
(* A feature map is a function from its keys to their values, written as   *)
(* Python writes them.                                                     *)
(***************************************************************************)
PlanTier == {"MOTOR", "CEREBRO", "PARTNER"}

PLAN_PRIORITY == <<"MOTOR", "CEREBRO", "PARTNER">>

PLAN_FEATURE_MATRIX ==
    [t \in PlanTier |->
        IF t = "MOTOR"
        THEN [access_mining |-> "False", access_marketing |-> "False",
              ai_content_generation |-> "False", max_chats |-> "1000"]
        ELSE IF t = "CEREBRO"
        THEN [access_mining |-> "True", access_marketing |-> "True",
              ai_content_generation |-> "True", max_chats |-> "10000"]
        ELSE [access_mining |-> "True", access_marketing |-> "True",
              ai_content_generation |-> "True", max_chats |-> "100000",
              dedicated_csm |-> "True"]]

\* The features column without an override: None, falsy like the empty dict.
NoFeatures == [k \in {} |-> "None"]

\* bool() of a feature value.
FeatureTruthy(value) == value \notin {"False", "None", "0", ""}

\* The user rows the exploration starts from: tier and feature override.
UserProfiles ==
    << [plan_tier |-> "CEREBRO", features |-> NoFeatures],
       [plan_tier |-> "MOTOR",   features |-> NoFeatures],
       [plan_tier |-> "PARTNER",
        features  |-> [access_marketing |-> "False"]] >>

Users == 1..Len(UserProfiles)

PlanIndex(t) == CHOOSE i \in 1..Len(PLAN_PRIORITY) : PLAN_PRIORITY[i] = t

VARIABLES
    settings,               \* server configuration (core/config.py, app.state)
    users,                  \* user rows: tier, feature override and the credit
                            \* columns of alembic revision f1a2b3c4d5e6
    ledger0,                \* credit counters of every user at the start
    marketing_campaigns,    \* persisted MarketingCampaign rows, id = index
    content_pieces,         \* persisted ContentPiece rows, id = index
    req,                    \* create-campaign requests, by slot
    entities,               \* persisted generation entities, id = index
    jobs,                   \* queue record of the job of each entity
    launches,               \* launch requests, by slot
    cb,                     \* response of the last callback
    svc                     \* the last direct call of a service operation

vars == <<settings, users, ledger0, marketing_campaigns, content_pieces, req,
          entities, jobs, launches, cb, svc>>

ledger_state == <<marketing_campaigns, content_pieces, req>>
entity_state == <<entities, jobs, launches, cb, svc>>

\* None, the empty string and the empty dict are falsy.
Truthy(x) == x \notin {NULL, ""}

(***************************************************************************)
(* Feature gate (backend/app/api/deps.py).                                 *)
(***************************************************************************)
\* Variant of the merge in which the tier's base value wins.
merge_features_base_wins(user) ==
    LET base == PLAN_FEATURE_MATRIX[user.plan_tier]
        ov   == user.features
    IN  [k \in DOMAIN base \cup DOMAIN ov |->
            IF k \in DOMAIN base THEN base[k] ELSE ov[k]]

\* {**base_features, **user.features} when the override is truthy.
merge_features(user) ==
    LET base == PLAN_FEATURE_MATRIX[user.plan_tier]
        ov   == user.features
    IN  IF DOMAIN ov # {}
        THEN [k \in DOMAIN base \cup DOMAIN ov |->
                 IF k \in DOMAIN ov THEN ov[k] ELSE base[k]]
        ELSE base

\* dict.get(key, False)
Get(map, key) == IF key \in DOMAIN map THEN map[key] ELSE "False"

\* Variant of the scan that starts from the highest plan.
find_required_plan_for_feature_highest(feature_key) ==
    LET grants == {i \in 1..Len(PLAN_PRIORITY) :
                     FeatureTruthy(Get(PLAN_FEATURE_MATRIX[PLAN_PRIORITY[i]],
                                       feature_key))}
    IN  IF grants = {} THEN NULL
        ELSE PLAN_PRIORITY[CHOOSE i \in grants : \A j \in grants : i >= j]

\* The first plan of PLAN_PRIORITY whose base matrix holds a truthy value
\* for the key, NULL for None.
find_required_plan_for_feature(feature_key) ==
    LET grants == {i \in 1..Len(PLAN_PRIORITY) :
                     FeatureTruthy(Get(PLAN_FEATURE_MATRIX[PLAN_PRIORITY[i]],
                                       feature_key))}
    IN  IF grants = {} THEN NULL
        ELSE PLAN_PRIORITY[CHOOSE i \in grants : \A j \in grants : i <= j]

FeatureForbiddenError(feature, required_plan) ==
    [code |-> 403, feature |-> feature, required_plan |-> required_plan]

\* features.get(feature_key, False) is truthy: the dependency returns the
\* user.
requires_feature(user, feature_key) ==
    FeatureTruthy(Get(merge_features(user), feature_key))

\* The error the dependency raises when it does not return the user.
requires_feature_error(feature_key) ==
    FeatureForbiddenError(feature_key,
        IF find_required_plan_for_feature(feature_key) # NULL
        THEN find_required_plan_for_feature(feature_key) ELSE "CEREBRO")

\* Variant of the plan gate that lets only the named tier through.
requires_plan_exact(user, min_plan) == user.plan_tier = min_plan

\* PLAN_PRIORITY.index(user.plan_tier) < PLAN_PRIORITY.index(min_plan)
\* raises: the dependency returns the user otherwise.
requires_plan(user, min_plan) ==
    ~ (PlanIndex(user.plan_tier) < PlanIndex(min_plan))

(***************************************************************************)
(* Credit deduction of create_campaign (marketing.py lines 113-141).       *)
(***************************************************************************)
\* Variant that only rejects an empty balance.
InsufficientCreditsOnlyEmpty(monthly, extra, cost) ==
    monthly + extra <= 0 /\ monthly + extra < cost

InsufficientCredits(monthly, extra, cost) ==
    monthly + extra < cost

\* Variant that charges the whole cost to the monthly counter.
DeductUnclamped(monthly, extra, cost) ==
    [monthly      |-> monthly - cost,
     extra        |-> extra,
     monthly_used |-> cost,
     extra_used   |-> 0,
     remaining    |-> 0]

Deduct(monthly, extra, cost) ==
    LET monthly_used == IF monthly > 0 THEN Min(monthly, cost) ELSE 0
        remaining    == cost - monthly_used
        extra_used   == IF remaining > 0 /\ extra > 0
                        THEN Min(extra, remaining) ELSE 0
    IN  [monthly      |-> monthly - monthly_used,
         extra        |-> extra - extra_used,
         monthly_used |-> monthly_used,
         extra_used   |-> extra_used,
         remaining    |-> remaining - extra_used]

IdleRequest ==
    [pc |-> "idle", user |-> 0, cost |-> 0,
     seen_monthly |-> 0, seen_extra |-> 0,
     new_monthly |-> 0, new_extra |-> 0,
     monthly_used |-> 0, extra_used |-> 0,
     campaign_id |-> 0, handoff |-> NULL, http |-> 0]

\* A request that has answered: the response and the user are kept, and the
\* cost when the gate let the request through to the handler body.
Answered(q, code) ==
    [IdleRequest EXCEPT !.pc = "done", !.http = code, !.user = q.user,
                        !.cost = IF code = 403 THEN 0 ELSE q.cost]

\* Requests are numbered in the order they arrive.
Arrives(r) ==
    /\ req[r].pc = "idle"
    /\ \A p \in 1..(r - 1) : req[p].pc # "idle"

Costs == (0 - MaxNegCost)..MaxCost

\* Dependency requires_feature("access_marketing") rejects the request: 403.
CreateCampaignForbidden(r, u, cost) ==
    /\ Arrives(r)
    /\ ~ requires_feature(users[u], "access_marketing")
    /\ req' = [req EXCEPT ![r] =
                 Answered([@ EXCEPT !.user = u, !.cost = cost], 403)]
    /\ UNCHANGED <<settings, users, ledger0, marketing_campaigns, content_pieces,
                   entity_state>>

\* Lines 109-124: refresh the user row, total below cost: 402.
CreateCampaignInsufficient(r, u, cost) ==
    /\ Arrives(r)
    /\ requires_feature(users[u], "access_marketing")
    /\ InsufficientCredits(users[u].monthly_credits_video,
                           users[u].extra_credits_video, cost)
    /\ req' = [req EXCEPT ![r] =
                 Answered([@ EXCEPT !.user = u, !.cost = cost], 402)]
    /\ UNCHANGED <<settings, users, ledger0, marketing_campaigns, content_pieces,
                   entity_state>>

\* Lines 109-141: refresh the user row and compute the deduction on the
\* session's copy of the row; nothing is persisted yet.
CreateCampaignDeduct(r, u, cost) ==
    /\ Arrives(r)
    /\ requires_feature(users[u], "access_marketing")
    /\ ~ InsufficientCredits(users[u].monthly_credits_video,
                             users[u].extra_credits_video, cost)
    /\ LET d == Deduct(users[u].monthly_credits_video,
                       users[u].extra_credits_video, cost)
       IN  req' = [req EXCEPT ![r] =
                     [@ EXCEPT !.pc = "deducted", !.user = u, !.cost = cost,
                               !.seen_monthly = users[u].monthly_credits_video,
                               !.seen_extra = users[u].extra_credits_video,
                               !.new_monthly = d.monthly,
                               !.new_extra = d.extra,
                               !.monthly_used = d.monthly_used,
                               !.extra_used = d.extra_used]]
    /\ UNCHANGED <<settings, users, ledger0, marketing_campaigns, content_pieces,
                   entity_state>>

\* Lines 143-166: flush the modified counters, insert the campaign, commit.
\* The unit of work writes the attributes whose value changed on the
\* session's copy; each is written as an absolute value.
CreateCampaignCommit(r) ==
    /\ req[r].pc = "deducted"
    /\ LET q == req[r]
           u == q.user
       IN  /\ users' = [users EXCEPT ![u] =
                 [@ EXCEPT
                    !.monthly_credits_video =
                        IF q.new_monthly # q.seen_monthly
                        THEN q.new_monthly ELSE @,
                    !.extra_credits_video =
                        IF q.new_extra # q.seen_extra
                        THEN q.new_extra ELSE @]]
           /\ marketing_campaigns' = Append(marketing_campaigns,
                 [user_id |-> u, status |-> "pending"])
           /\ req' = [req EXCEPT ![r] =
                 [@ EXCEPT !.pc = "handoff",
                           !.campaign_id = Len(marketing_campaigns) + 1]]
    /\ UNCHANGED <<settings, ledger0, content_pieces, entity_state>>

\* Variant without the rollback: the flushed counters stay written.
CreateCampaignCommitFailKeepsFlush(r) ==
    /\ req[r].pc = "deducted"
    /\ users' = [users EXCEPT ![req[r].user] =
          [@ EXCEPT !.monthly_credits_video = req[r].new_monthly,
                    !.extra_credits_video = req[r].new_extra]]
    /\ req' = [req EXCEPT ![r] = Answered(@, 500)]
    /\ UNCHANGED <<settings, ledger0, marketing_campaigns, content_pieces,
                   entity_state>>

\* Lines 168-173: flush, insert or commit raises: rollback, 500.
CreateCampaignCommitFail(r) ==
    /\ req[r].pc = "deducted"
    /\ req' = [req EXCEPT ![r] = Answered(@, 500)]
    /\ UNCHANGED <<settings, users, ledger0, marketing_campaigns, content_pieces,
                   entity_state>>

HandoffOutcomes == {"ok", "timeout", "http_error", "connect_error"}

\* Variant that gives the credits back when the hand-off fails.
CreateCampaignHandoffRefunds(r, outcome) ==
    /\ req[r].pc = "handoff"
    /\ outcome \in HandoffOutcomes
    /\ users' = [users EXCEPT ![req[r].user] =
          [@ EXCEPT !.monthly_credits_video =
                       IF outcome = "ok" THEN @ ELSE @ + req[r].monthly_used,
                    !.extra_credits_video =
                       IF outcome = "ok" THEN @ ELSE @ + req[r].extra_used]]
    /\ req' = [req EXCEPT ![r] =
          [Answered(@, 200) EXCEPT
              !.handoff = IF outcome = "ok" THEN "ok" ELSE "failed"]]
    /\ UNCHANGED <<settings, ledger0, marketing_campaigns, content_pieces,
                   entity_state>>

\* Lines 175-215: post the order to the workflow engine; a timeout, an HTTP
\* error status or a connection error is printed and the response is 200.
CreateCampaignHandoff(r, outcome) ==
    /\ req[r].pc = "handoff"
    /\ outcome \in HandoffOutcomes
    /\ req' = [req EXCEPT ![r] =
          [Answered(@, 200) EXCEPT
              !.handoff = IF outcome = "ok" THEN "ok" ELSE "failed"]]
    /\ UNCHANGED <<settings, users, ledger0, marketing_campaigns, content_pieces,
                   entity_state>>


(***************************************************************************)
(* Content pieces of a marketing campaign (marketing.py lines 324-906).    *)
(***************************************************************************)
\* Variant without the check that a service key is configured.
verify_service_api_key_unchecked(x_api_key) ==
    IF x_api_key # settings.N8N_SERVICE_API_KEY THEN 401 ELSE 0

\* verify_service_api_key: 0 when the key is accepted, else the error status.
verify_service_api_key(x_api_key) ==
    IF ~ Truthy(settings.N8N_SERVICE_API_KEY) THEN 500
    ELSE IF ~ Truthy(x_api_key) \/ x_api_key # settings.N8N_SERVICE_API_KEY THEN 401
    ELSE 0

ApiKeys == {NULL, "k3y", "wrong"}

\* The rows save-plan writes: n pieces PENDING, the campaign in_progress.
SavePlanRows(campaign_id, n) ==
    /\ content_pieces' = content_pieces \o
          [i \in 1..n |-> [campaign_id |-> campaign_id, status |-> "PENDING",
                           media_url |-> NULL]]
    /\ marketing_campaigns' = [marketing_campaigns EXCEPT
                                  ![campaign_id].status = "in_progress"]

\* POST /campaign/{campaign_id}/save-plan, lines 324-431.
save_content_plan(u, campaign_id, n) ==
    /\ Len(content_pieces) + n <= MaxPieces
    /\ IF /\ requires_feature(users[u], "access_marketing")
          /\ campaign_id \in 1..Len(marketing_campaigns)
          /\ marketing_campaigns[campaign_id].user_id = u
       THEN SavePlanRows(campaign_id, n)
       ELSE UNCHANGED <<marketing_campaigns, content_pieces>>
    /\ UNCHANGED <<settings, users, ledger0, req, entity_state>>

\* POST /public/campaign/{campaign_id}/save-plan, lines 653-786.
save_content_plan_public(x_api_key, campaign_id, n) ==
    /\ Len(content_pieces) + n <= MaxPieces
    /\ IF /\ verify_service_api_key(x_api_key) = 0
          /\ campaign_id \in 1..Len(marketing_campaigns)
          /\ n > 0
       THEN SavePlanRows(campaign_id, n)
       ELSE UNCHANGED <<marketing_campaigns, content_pieces>>
    /\ UNCHANGED <<settings, users, ledger0, req, entity_state>>

UpdateMediaRow(piece_id, media_url) ==
    content_pieces' = [content_pieces EXCEPT
                          ![piece_id].media_url = media_url,
                          ![piece_id].status = "COMPLETED"]

\* PATCH /content/{piece_id}/update-media, lines 582-646.
update_content_media(u, piece_id, media_url) ==
    /\ IF /\ requires_feature(users[u], "access_marketing")
          /\ piece_id \in 1..Len(content_pieces)
          /\ marketing_campaigns[content_pieces[piece_id].campaign_id].user_id = u
       THEN UpdateMediaRow(piece_id, media_url)
       ELSE UNCHANGED content_pieces
    /\ UNCHANGED <<settings, users, ledger0, marketing_campaigns, req,
                   entity_state>>

\* POST /public/content/{piece_id}/update-media, lines 789-906; media_url is
\* what extract_media_url_from_payload found in the body, NULL if nothing.
update_content_media_public(x_api_key, piece_id, media_url) ==
    /\ IF /\ verify_service_api_key(x_api_key) = 0
          /\ piece_id \in 1..Len(content_pieces)
          /\ Truthy(media_url)
       THEN UpdateMediaRow(piece_id, media_url)
       ELSE UNCHANGED content_pieces
    /\ UNCHANGED <<settings, users, ledger0, marketing_campaigns, req,
                   entity_state>>

MediaUrls == {NULL, "https://cdn/media.mp4"}

(***************************************************************************)
(* Part 2: generation entities (influencer campaign, monthly plan,         *)
(* extraction query), their services, launch handlers, workers, callback.  *)
(***************************************************************************)
Variants == {"campaign", "plan", "query"}

\* content_planner/models.py CampaignStatus; content_creator/models.py
\* CampaignStatus and data_mining/models.py ExtractionStatus are the subset
\* without processing_remote and review_ready.
PlannerCampaignStatus ==
    {"pending", "in_progress", "processing_remote", "review_ready",
     "completed", "failed", "cancelled"}

CampaignStatus == {"pending", "in_progress", "completed", "failed", "cancelled"}

ExtractionStatus == {"pending", "in_progress", "completed", "failed", "cancelled"}

StatusOf(variant) ==
    CASE variant = "plan"     -> PlannerCampaignStatus
      [] variant = "campaign" -> CampaignStatus
      [] variant = "query"    -> ExtractionStatus

\* Minimum tier of each launch endpoint (the requires_plan argument).
MinPlan(variant) ==
    CASE variant = "plan"     -> "CEREBRO"
      [] variant = "campaign" -> "PARTNER"
      [] variant = "query"    -> "CEREBRO"

\* Task name each launch endpoint enqueues.
TaskOf(variant) ==
    CASE variant = "plan"     -> "schedule_monthly_content"
      [] variant = "campaign" -> "generate_influencer_content"
      [] variant = "query"    -> "launch_deep_extraction"

\* content_count of a new campaign: Field(ge=1, le=100); create_campaign
\* raises ValueError outside this range.
MinContentCount == 1
MaxContentCount == 100

\* The piece counts a launch request carries; the monthly plan and the
\* research query have no such column.
ContentCounts(variant) ==
    IF variant = "campaign" THEN {MinContentCount, MaxContentCount} ELSE {0}

\* The row service.create_campaign / create_query inserts.
NewEntity(variant, u, content_count) ==
    [variant |-> variant, user_id |-> u, status |-> "pending",
     content_count |-> content_count,
     arq_job_id |-> NULL, generated_content |-> NULL, error_message |-> NULL,
     started_at |-> NULL, completed_at |-> NULL]

Now == "now"

\* Variant whose FAILED update writes the content argument back as it is.
ContentPlannerService_update_campaign_status_clears_content(e, status, generated_content, error_message) ==
    [e EXCEPT !.status = status,
              !.generated_content = generated_content,
              !.error_message = IF status = "failed" THEN error_message ELSE @]

\* ContentPlannerService.update_campaign_status applied to the loaded row.
ContentPlannerService_update_campaign_status(e, status, generated_content, error_message) ==
    [e EXCEPT
       !.status = status,
       !.started_at =
          IF status \in {"in_progress", "processing_remote"} /\ ~ Truthy(@)
          THEN Now ELSE @,
       !.completed_at = IF status = "completed" THEN Now ELSE @,
       !.generated_content =
          IF status \in {"review_ready", "completed"} /\ Truthy(generated_content)
          THEN generated_content ELSE @,
       !.error_message =
          IF status = "failed" /\ Truthy(error_message)
          THEN error_message ELSE @]

\* Variant whose status update also writes back a null job handle.
ContentCreatorService_update_campaign_status_drops_job(e, status, generated_content, error_message) ==
    [e EXCEPT !.status = status, !.arq_job_id = NULL]

\* ContentCreatorService.update_campaign_status applied to the loaded row.
ContentCreatorService_update_campaign_status(e, status, generated_content, error_message) ==
    [e EXCEPT
       !.status = status,
       !.started_at =
          IF status = "in_progress" /\ ~ Truthy(@) THEN Now ELSE @,
       !.completed_at = IF status = "completed" THEN Now ELSE @,
       !.generated_content =
          IF status = "completed" /\ Truthy(generated_content)
          THEN generated_content ELSE @,
       !.error_message =
          IF status = "failed" /\ Truthy(error_message)
          THEN error_message ELSE @]

\* Variant whose update leaves completed_at alone.
DataMiningService_update_query_status_no_timestamp(e, status, results, error_message) ==
    [e EXCEPT
       !.status = status,
       !.generated_content =
          IF status = "completed" /\ Truthy(results) THEN results ELSE @,
       !.error_message =
          IF status = "failed" /\ Truthy(error_message)
          THEN error_message ELSE @]

\* DataMiningService.update_query_status applied to the loaded row
\* (generated_content stands for the results column).
DataMiningService_update_query_status(e, status, results, error_message) ==
    [e EXCEPT
       !.status = status,
       !.started_at =
          IF status = "in_progress" /\ ~ Truthy(@) THEN Now ELSE @,
       !.completed_at = IF status = "completed" THEN Now ELSE @,
       !.generated_content =
          IF status = "completed" /\ Truthy(results) THEN results ELSE @,
       !.error_message =
          IF status = "failed" /\ Truthy(error_message)
          THEN error_message ELSE @]

\* The status update of the service that owns the entity's table.
update_status(e, status, content, error_message) ==
    CASE e.variant = "plan" ->
           ContentPlannerService_update_campaign_status(e, status, content,
                                                        error_message)
      [] e.variant = "campaign" ->
           ContentCreatorService_update_campaign_status(e, status, content,
                                                        error_message)
      [] e.variant = "query" ->
           DataMiningService_update_query_status(e, status, content,
                                                 error_message)

Exists(id) == id \in 1..Len(entities)

\* The entities after the service commits a status update of row id.
Updated(id, status, content, error_message) ==
    [entities EXCEPT ![id] = update_status(@, status, content, error_message)]

(***************************************************************************)
(* Launch handlers: POST /new-campaign (content_creator/routes.py 43-146), *)
(* POST /launch-monthly-campaign (content_planner/routes.py 48-145),       *)
(* POST /launch-query (data_mining/routes.py 44-143).                      *)
(***************************************************************************)
IdleLaunch ==
    [pc |-> "idle", variant |-> NULL, entity_id |-> 0, job_id |-> NULL,
     http |-> 0]

Finished(code) == [IdleLaunch EXCEPT !.pc = "done", !.http = code]

LaunchArrives(l) ==
    /\ launches[l].pc = "idle"
    /\ \A p \in 1..(l - 1) : launches[p].pc # "idle"

\* get_arq_pool: the dependency of the monthly-plan endpoint answers 500
\* when app.state has no pool; 0 when the pool is returned.
get_arq_pool == IF settings.arq_pool THEN 0 ELSE 500

\* Variant whose plan dependency lets every tier through.
LaunchDependenciesNoGate(variant, u) ==
    IF variant = "plan" /\ get_arq_pool # 0 THEN get_arq_pool ELSE 0

\* The status the dependencies of a launch endpoint answer before the
\* handler body runs, 0 when they all pass.  The monthly-plan endpoint
\* declares the pool dependency before the plan gate.
LaunchDependencies(variant, u) ==
    IF variant = "plan" /\ get_arq_pool # 0 THEN get_arq_pool
    ELSE IF ~ requires_plan(users[u], MinPlan(variant)) THEN 403
    ELSE 0

\* A dependency rejects the request: the handler body never runs.
LaunchRejected(l, variant, u) ==
    /\ LaunchArrives(l)
    /\ LaunchDependencies(variant, u) # 0
    /\ launches' = [launches EXCEPT
                       ![l] = Finished(LaunchDependencies(variant, u))]
    /\ UNCHANGED <<settings, users, ledger0, ledger_state, entities, jobs, cb,
                   svc>>

\* service.create_* raises ValueError on invalid input: 400, nothing stored.
LaunchInvalid(l, variant, u) ==
    /\ LaunchArrives(l)
    /\ LaunchDependencies(variant, u) = 0
    /\ launches' = [launches EXCEPT ![l] = Finished(400)]
    /\ UNCHANGED <<settings, users, ledger0, ledger_state, entities, jobs, cb,
                   svc>>

\* service.create_* inserts the PENDING row and commits.
LaunchCreate(l, variant, u, content_count) ==
    /\ LaunchArrives(l)
    /\ LaunchDependencies(variant, u) = 0
    /\ entities' = Append(entities, NewEntity(variant, u, content_count))
    /\ launches' = [launches EXCEPT
                       ![l] = [IdleLaunch EXCEPT !.pc = "created",
                                                 !.variant = variant,
                                                 !.entity_id = Len(entities) + 1]]
    /\ UNCHANGED <<settings, users, ledger0, ledger_state, jobs, cb, svc>>

\* new-campaign and launch-query read app.state.arq_pool in the body; when
\* it is missing the HTTPException passes the handlers: 500, row left PENDING.
LaunchPoolMissing(l) ==
    /\ launches[l].pc = "created"
    /\ launches[l].variant # "plan"
    /\ ~ settings.arq_pool
    /\ launches' = [launches EXCEPT ![l] = Finished(500)]
    /\ UNCHANGED <<settings, users, ledger0, ledger_state, entities, jobs, cb,
                   svc>>

\* arq_pool.enqueue_job succeeds: the job is in the queue.
LaunchEnqueue(l) ==
    /\ launches[l].pc = "created"
    /\ settings.arq_pool
    /\ jobs' = Append(jobs, [job_id |-> ToString(Len(jobs) + 1),
                             function |-> TaskOf(launches[l].variant),
                             entity_id |-> launches[l].entity_id,
                             pc |-> "queued", result |-> NULL])
    /\ launches' = [launches EXCEPT ![l].pc = "enqueued",
                                    ![l].job_id = ToString(Len(jobs) + 1)]
    /\ UNCHANGED <<settings, users, ledger0, ledger_state, entities, cb, svc>>

\* Variant whose enqueue failure answers 500 without touching the row.
LaunchEnqueueFailKeepsPending(l) ==
    /\ launches[l].pc = "created"
    /\ settings.arq_pool
    /\ launches' = [launches EXCEPT ![l] = Finished(500)]
    /\ UNCHANGED <<settings, users, ledger0, ledger_state, entities, jobs, cb,
                   svc>>

\* arq_pool.enqueue_job raises: the handler marks the row FAILED, 500.
LaunchEnqueueFail(l) ==
    /\ launches[l].pc = "created"
    /\ settings.arq_pool
    /\ entities' = Updated(launches[l].entity_id, "failed", NULL,
                           "Error al encolar tarea")
    /\ launches' = [launches EXCEPT ![l] = Finished(500)]
    /\ UNCHANGED <<settings, users, ledger0, ledger_state, jobs, cb, svc>>

\* After the enqueue the handler stores job.job_id.  new-campaign and
\* launch-query write the column themselves and answer 202.  The
\* monthly-plan handler calls service.update_campaign_job_id, which
\* ContentPlannerService does not define: the AttributeError is caught by
\* the inner handler, which marks the row FAILED and answers 500.
LaunchStoreJobId(l) ==
    /\ launches[l].pc = "enqueued"
    /\ IF launches[l].variant = "plan"
       THEN /\ entities' = Updated(launches[l].entity_id, "failed", NULL,
                                   "Error al encolar tarea")
            /\ launches' = [launches EXCEPT ![l] = Finished(500)]
       ELSE /\ entities' = [entities EXCEPT
                               ![launches[l].entity_id].arq_job_id =
                                   launches[l].job_id]
            /\ launches' = [launches EXCEPT ![l] = Finished(202)]
    /\ UNCHANGED <<settings, users, ledger0, ledger_state, jobs, cb, svc>>

(***************************************************************************)
(* Worker tasks (workers/tasks/content_tasks.py, extraction_tasks.py).     *)
(***************************************************************************)
\* The task loads the row and writes IN_PROGRESS, whatever the status was.
WorkerStart(j) ==
    /\ jobs[j].pc = "queued"
    /\ entities' = Updated(jobs[j].entity_id, "in_progress", NULL, NULL)
    /\ jobs' = [jobs EXCEPT ![j].pc = "running"]
    /\ UNCHANGED <<settings, users, ledger0, ledger_state, launches, cb, svc>>

\* WorkerSettings.job_timeout, in seconds.
job_timeout == 300

\* generate_influencer_content: 15 seconds per piece, slept in steps of 5.
SecondsPerPiece == 15
SleepStep == 5

\* Seconds the task of job j sleeps before it writes COMPLETED: only
\* generate_influencer_content sleeps in proportion to the row's content_count.
SleepSeconds(j) ==
    IF jobs[j].function = "generate_influencer_content"
    THEN ((entities[jobs[j].entity_id].content_count * SecondsPerPiece)
             \div SleepStep) * SleepStep
    ELSE 0

\* The worker cancels a job that is still running after job_timeout.
TimesOut(j) == SleepSeconds(j) >= job_timeout

\* The task finishes generating and writes COMPLETED with its content.
WorkerFinish(j) ==
    /\ jobs[j].pc = "running"
    /\ ~ TimesOut(j)
    /\ entities' = Updated(jobs[j].entity_id, "completed", "generated", NULL)
    /\ jobs' = [jobs EXCEPT ![j].pc = "complete", ![j].result = "success"]
    /\ UNCHANGED <<settings, users, ledger0, ledger_state, launches, cb, svc>>

\* An exception inside the task: the handler writes FAILED with str(e) in a
\* fresh session and the task returns a failure result.
WorkerException(j) ==
    /\ jobs[j].pc = "running"
    /\ entities' = Updated(jobs[j].entity_id, "failed", NULL, "worker error")
    /\ jobs' = [jobs EXCEPT ![j].pc = "complete", ![j].result = "failed"]
    /\ UNCHANGED <<settings, users, ledger0, ledger_state, launches, cb, svc>>

\* An exception inside the task whose FAILED write raises as well: the inner
\* except swallows it, the row is left as it was and the task returns a
\* failure result.
WorkerExceptionWriteFails(j) ==
    /\ jobs[j].pc = "running"
    /\ jobs' = [jobs EXCEPT ![j].pc = "complete", ![j].result = "failed"]
    /\ UNCHANGED <<settings, users, ledger0, ledger_state, entities, launches,
                   cb, svc>>

\* The job runs into job_timeout: the worker cancels the task, the
\* CancelledError passes the task's except Exception, nothing is written.
WorkerTimeout(j) ==
    /\ jobs[j].pc = "running"
    /\ TimesOut(j)
    /\ jobs' = [jobs EXCEPT ![j].pc = "complete", ![j].result = "cancelled"]
    /\ UNCHANGED <<settings, users, ledger0, ledger_state, entities, launches,
                   cb, svc>>

(***************************************************************************)
(* POST /n8n-callback (content_planner/routes.py lines 380-481).           *)
(***************************************************************************)
\* The X-BAI-Secret header and the secret_token of the body of a callback.
CallbackSecrets ==
    {<<"s3cret", NULL>>, <<"wrong", "s3cret">>, <<NULL, "s3cret">>,
     <<NULL, "wrong">>, <<NULL, NULL>>}

CallbackErrors == {NULL, "n8n error"}

CallbackContents == {NULL, "n8n content"}

NoCallback == [code |-> 0, success |-> FALSE, provided_secret |-> NULL]

\* Variant whose select skips the plans that are already COMPLETED.
CallbackFindsOpen(campaign_id) ==
    /\ Exists(campaign_id)
    /\ entities[campaign_id].variant = "plan"
    /\ entities[campaign_id].status # "completed"

\* The row the callback's select on the monthly-plan table finds.
CallbackFinds(campaign_id) ==
    Exists(campaign_id) /\ entities[campaign_id].variant = "plan"

\* Variant of the callback that looks the campaign up before it checks the
\* secret.
n8n_callback_lookup_first(campaign_id, x_bai_secret, secret_token, error, generated_content) ==
    LET provided_secret ==
            IF Truthy(x_bai_secret) THEN x_bai_secret ELSE secret_token
        Answer(code, success) ==
            [code |-> code, success |-> success,
             provided_secret |-> provided_secret]
    IN
    /\ IF ~ Truthy(settings.INTERNAL_WEBHOOK_SECRET)
       THEN cb' = [NoCallback EXCEPT !.code = 500] /\ UNCHANGED entities
       ELSE IF ~ CallbackFinds(campaign_id)
       THEN cb' = Answer(404, FALSE) /\ UNCHANGED entities
       ELSE IF provided_secret # settings.INTERNAL_WEBHOOK_SECRET
       THEN cb' = Answer(401, FALSE) /\ UNCHANGED entities
       ELSE IF Truthy(error)
       THEN /\ entities' = Updated(campaign_id, "failed", NULL, error)
            /\ cb' = Answer(200, FALSE)
       ELSE IF ~ Truthy(generated_content)
       THEN cb' = Answer(400, FALSE) /\ UNCHANGED entities
       ELSE /\ entities' = Updated(campaign_id, "completed",
                                   generated_content, NULL)
            /\ cb' = Answer(200, TRUE)
    /\ UNCHANGED <<settings, users, ledger0, ledger_state, jobs, launches, svc>>

\* Variant that accepts the callback when either the header or the body
\* token equals the configured secret.
n8n_callback_either_secret(campaign_id, x_bai_secret, secret_token, error, generated_content) ==
    LET provided_secret ==
            IF Truthy(x_bai_secret) THEN x_bai_secret ELSE secret_token
        Answer(code, success) ==
            [code |-> code, success |-> success,
             provided_secret |-> provided_secret]
    IN
    /\ IF ~ Truthy(settings.INTERNAL_WEBHOOK_SECRET)
       THEN cb' = [NoCallback EXCEPT !.code = 500] /\ UNCHANGED entities
       ELSE IF x_bai_secret # settings.INTERNAL_WEBHOOK_SECRET
               /\ secret_token # settings.INTERNAL_WEBHOOK_SECRET
       THEN cb' = Answer(401, FALSE) /\ UNCHANGED entities
       ELSE IF ~ CallbackFinds(campaign_id)
       THEN cb' = Answer(404, FALSE) /\ UNCHANGED entities
       ELSE IF Truthy(error)
       THEN /\ entities' = Updated(campaign_id, "failed", NULL, error)
            /\ cb' = Answer(200, FALSE)
       ELSE IF ~ Truthy(generated_content)
       THEN cb' = Answer(400, FALSE) /\ UNCHANGED entities
       ELSE /\ entities' = Updated(campaign_id, "completed",
                                   generated_content, NULL)
            /\ cb' = Answer(200, TRUE)
    /\ UNCHANGED <<settings, users, ledger0, ledger_state, jobs, launches, svc>>

\* Variant that completes the plan without requiring generated content.
n8n_callback_unvalidated(campaign_id, x_bai_secret, secret_token, error, generated_content) ==
    LET provided_secret ==
            IF Truthy(x_bai_secret) THEN x_bai_secret ELSE secret_token
        Answer(code, success) ==
            [code |-> code, success |-> success,
             provided_secret |-> provided_secret]
    IN
    /\ IF ~ Truthy(settings.INTERNAL_WEBHOOK_SECRET)
       THEN cb' = [NoCallback EXCEPT !.code = 500] /\ UNCHANGED entities
       ELSE IF provided_secret # settings.INTERNAL_WEBHOOK_SECRET
       THEN cb' = Answer(401, FALSE) /\ UNCHANGED entities
       ELSE IF ~ CallbackFinds(campaign_id)
       THEN cb' = Answer(404, FALSE) /\ UNCHANGED entities
       ELSE IF Truthy(error)
       THEN /\ entities' = Updated(campaign_id, "failed", NULL, error)
            /\ cb' = Answer(200, FALSE)
       ELSE /\ entities' = Updated(campaign_id, "completed",
                                   generated_content, NULL)
            /\ cb' = Answer(200, TRUE)
    /\ UNCHANGED <<settings, users, ledger0, ledger_state, jobs, launches, svc>>

\* The handler: secret check, lookup, then the FAILED or COMPLETED write.  cb
\* keeps the response and the secret the handler compared.
n8n_callback(campaign_id, x_bai_secret, secret_token, error, generated_content) ==
    LET provided_secret ==
            IF Truthy(x_bai_secret) THEN x_bai_secret ELSE secret_token
        Answer(code, success) ==
            [code |-> code, success |-> success,
             provided_secret |-> provided_secret]
    IN
    /\ IF ~ Truthy(settings.INTERNAL_WEBHOOK_SECRET)
       THEN cb' = [NoCallback EXCEPT !.code = 500] /\ UNCHANGED entities
       ELSE IF provided_secret # settings.INTERNAL_WEBHOOK_SECRET
       THEN cb' = Answer(401, FALSE) /\ UNCHANGED entities
       ELSE IF ~ CallbackFinds(campaign_id)
       THEN cb' = Answer(404, FALSE) /\ UNCHANGED entities
       ELSE IF Truthy(error)
       THEN /\ entities' = Updated(campaign_id, "failed", NULL, error)
            /\ cb' = Answer(200, FALSE)
       ELSE IF ~ Truthy(generated_content)
       THEN cb' = Answer(400, FALSE) /\ UNCHANGED entities
       ELSE /\ entities' = Updated(campaign_id, "completed",
                                   generated_content, NULL)
            /\ cb' = Answer(200, TRUE)
    /\ UNCHANGED <<settings, users, ledger0, ledger_state, jobs, launches, svc>>

(***************************************************************************)
(* Direct calls of the services' create and status-update operations.      *)
(***************************************************************************)
NoCall == [id |-> 0, status |-> NULL, raised |-> FALSE]

ServiceCreate(variant, u) ==
    /\ entities' = Append(entities, NewEntity(variant, u, MinContentCount))
    /\ svc' = NoCall
    /\ UNCHANGED <<settings, users, ledger0, ledger_state, jobs, launches, cb>>

\* update_campaign_status / update_query_status: ValueError when the row
\* does not exist, else the update is committed.
ServiceUpdateStatus(id, status, content, error_message) ==
    /\ IF ~ Exists(id)
       THEN /\ svc' = [id |-> id, status |-> status, raised |-> TRUE]
            /\ UNCHANGED entities
       ELSE /\ status \in StatusOf(entities[id].variant)
            /\ entities' = Updated(id, status, content, error_message)
            /\ svc' = [id |-> id, status |-> status, raised |-> FALSE]
    /\ UNCHANGED <<settings, users, ledger0, ledger_state, jobs, launches, cb>>

(***************************************************************************)
(* Status reads: GET /campaigns/{id}/status and GET /queries/{id}/status   *)
(* with the services' get_job_status.                                      *)
(***************************************************************************)
\* The job of the queue that a stored handle names.
JobOf(h) == CHOOSE j \in 1..Len(jobs) : jobs[j].job_id = h

\* What "await job.status()" can yield for job j: the status the queue keeps
\* for a waiting, a running and a finished job, "not_found" once the kept
\* result of a finished job has expired, and "raises" when the query fails.
QueueReports(j) ==
    {"raises"} \cup
    (CASE jobs[j].pc = "queued"   -> {"queued"}
       [] jobs[j].pc = "running"  -> {"in_progress"}
       [] jobs[j].pc = "complete" -> {"complete", "not_found"})

\* What "await job.result()" can yield for job j: the dictionary the task
\* returned, or NULL when the call raises, as it always does for a task
\* that was cancelled.
LiveResults(j) ==
    {NULL} \cup (IF jobs[j].result \in {"success", "failed"}
                 THEN {jobs[j].result} ELSE {})

\* Seconds the services expect a monthly plan and a research query to take.
PlanEstimatedSeconds == 75
QueryEstimatedSeconds == 5

estimated_total_time(e) ==
    CASE e.variant = "plan"     -> PlanEstimatedSeconds
      [] e.variant = "campaign" -> e.content_count * SecondsPerPiece
      [] e.variant = "query"    -> QueryEstimatedSeconds

\* Seconds since started_at at the moment of a status read.
TimesElapsed == {0, job_timeout}

\* get_job_status of the three services on the loaded row e: job_status is
\* what job.status() yielded, live_result what job.result() yielded.
get_job_status(e, job_status, live_result, time_elapsed) ==
    LET Persisted(progress, error) ==
            [status |-> e.status, progress |-> progress,
             result |-> e.generated_content, error |-> error,
             job_id |-> e.arq_job_id]
        Live(progress, result, error) ==
            [status |-> job_status, progress |-> progress, result |-> result,
             error |-> error, job_id |-> e.arq_job_id]
    IN
    IF ~ Truthy(e.arq_job_id)
    THEN [status |-> e.status, progress |-> 0, result |-> NULL,
          error |-> "No hay un job de Arq asociado", job_id |-> "N/A"]
    ELSE IF job_status = "raises"
    THEN Persisted(IF e.status = "completed" THEN 100
                   ELSE IF e.status = "in_progress" THEN 50 ELSE 0,
                   IF Truthy(e.error_message) THEN e.error_message
                   ELSE "Error al consultar job en Redis")
    ELSE IF job_status = NULL
    THEN Persisted(IF e.status = "completed" THEN 100 ELSE 0, e.error_message)
    ELSE IF job_status \in {"queued", "deferred"}
    THEN Live(0, NULL, NULL)
    ELSE IF job_status = "running"
    THEN Live(IF Truthy(e.started_at) /\ estimated_total_time(e) # 0
              THEN Min((time_elapsed * 100) \div estimated_total_time(e), 99)
              ELSE 10,
              NULL, NULL)
    ELSE IF job_status = "complete"
    THEN Live(100,
              IF live_result # NULL THEN live_result ELSE e.generated_content,
              NULL)
    ELSE IF job_status = "failed"
    THEN Live(100, NULL,
              IF live_result # NULL THEN live_result
              ELSE IF Truthy(e.error_message) THEN e.error_message
              ELSE "job.result error")
    ELSE Live(0, NULL, NULL)

\* arq_status_map.get(status, status) of the status routes.
arq_status_map(status) ==
    CASE status = "queued"    -> "queued"
      [] status = "deferred"  -> "queued"
      [] status = "running"   -> "in_progress"
      [] status = "complete"  -> "complete"
      [] status = "failed"    -> "failed"
      [] status = "not_found" -> NULL
      [] OTHER                -> status

\* The response of a status route; code 0 until a status read was answered.
StatusResponse(code, id, data) ==
    [code |-> code, id |-> id, job_id |-> data.job_id,
     job_status |-> arq_status_map(data.status),
     campaign_status |->
         IF code = 200 /\ Exists(id) THEN entities[id].status ELSE NULL,
     progress |-> data.progress, result |-> data.result, error |-> data.error]

NoData ==
    [status |-> NULL, progress |-> NULL, result |-> NULL, error |-> NULL,
     job_id |-> NULL]

\* Variant of the lookup whose select leaves out the user_id condition.
get_campaign_any_owner(variant, u, id) ==
    IF Exists(id) /\ entities[id].variant = variant THEN id ELSE 0

\* select(X).where(X.id == id, X.user_id == user_id), then first(): the
\* row's id, 0 for None.
get_campaign(variant, u, id) ==
    IF Exists(id) /\ entities[id].variant = variant /\ entities[id].user_id = u
    THEN id ELSE 0

\* User u reads the status of row id through the route of the row's variant:
\* the dependencies, the ownership lookup, the missing pool of the campaign
\* and query routes, then get_job_status and the mapping of its status.
GetJobStatus(u, id, job_status, live_result, time_elapsed) ==
    /\ Exists(id)
    /\ LET e == entities[id] IN
       /\ Truthy(e.arq_job_id) =>
             /\ job_status \in QueueReports(JobOf(e.arq_job_id))
             /\ live_result \in LiveResults(JobOf(e.arq_job_id))
       /\ svc' =
             IF LaunchDependencies(e.variant, u) # 0
             THEN StatusResponse(LaunchDependencies(e.variant, u), id, NoData)
             ELSE IF get_campaign(e.variant, u, id) = 0
             THEN StatusResponse(404, id, NoData)
             ELSE IF ~ settings.arq_pool
             THEN StatusResponse(200, id,
                     [NoData EXCEPT !.job_id = e.arq_job_id,
                                    !.error = "Worker pool no disponible"])
             ELSE StatusResponse(200, id,
                     get_job_status(e, job_status, live_result, time_elapsed))
    /\ UNCHANGED <<settings, users, ledger0, ledger_state, entities, jobs,
                   launches, cb>>

(***************************************************************************)
(* Initial state and specifications.                                       *)
(***************************************************************************)
Configured ==
    [INTERNAL_WEBHOOK_SECRET |-> "s3cret", N8N_SERVICE_API_KEY |-> "k3y",
     arq_pool |-> TRUE]

Unconfigured ==
    [INTERNAL_WEBHOOK_SECRET |-> NULL, N8N_SERVICE_API_KEY |-> NULL,
     arq_pool |-> FALSE]

Init ==
    /\ settings \in {Configured, Unconfigured}
    /\ \E m \in 0..MaxCredit, e \in 0..MaxCredit :
          /\ users = [u \in Users |->
                        [plan_tier |-> UserProfiles[u].plan_tier,
                         features |-> UserProfiles[u].features,
                         monthly_credits_video |-> m,
                         extra_credits_video |-> e]]
          /\ ledger0 = [u \in Users |-> [monthly |-> m, extra |-> e]]
    /\ marketing_campaigns = <<>>
    /\ content_pieces = <<>>
    /\ req = [r \in 1..NumRequests |-> IdleRequest]
    /\ entities = <<>>
    /\ jobs = <<>>
    /\ launches = [l \in 1..NumLaunches |-> IdleLaunch]
    /\ cb = NoCallback
    /\ svc = NoCall

\* The initial states of a configured server.
InitConfigured == Init /\ settings = Configured

\* The initial states in which every user holds one credit of each kind.
InitFunded ==
    /\ Init
    /\ \A u \in Users : ledger0[u] = [monthly |-> 1, extra |-> 1]

\* POST /create-campaign, the requests of slots R.
CreateCampaign(R) ==
    \/ \E r \in R, u \in Users, cost \in Costs : CreateCampaignForbidden(r, u, cost)
    \/ \E r \in R, u \in Users, cost \in Costs : CreateCampaignInsufficient(r, u, cost)
    \/ \E r \in R, u \in Users, cost \in Costs : CreateCampaignDeduct(r, u, cost)
    \/ \E r \in R : CreateCampaignCommit(r)
    \/ \E r \in R : CreateCampaignCommitFail(r)
    \/ \E r \in R, o \in HandoffOutcomes : CreateCampaignHandoff(r, o)

NextLedger == CreateCampaign(1..NumRequests)

SpecLedger == InitConfigured /\ [][NextLedger]_vars

\* Ids a client can name: those of the rows of a table and one that is unknown.
Ids(table) == 1..(Len(table) + 1)

\* The content-piece endpoints of the marketing campaigns.
ContentPieces ==
    \/ \E u \in Users, c \in Ids(marketing_campaigns), n \in 0..MaxPieces :
          save_content_plan(u, c, n)
    \/ \E k \in ApiKeys, c \in Ids(marketing_campaigns), n \in 0..MaxPieces :
          save_content_plan_public(k, c, n)
    \/ \E u \in Users, p \in Ids(content_pieces), m \in MediaUrls :
          update_content_media(u, p, m)
    \/ \E k \in ApiKeys, p \in Ids(content_pieces), m \in MediaUrls :
          update_content_media_public(k, p, m)

\* The three launch endpoints, the requests of slots L.
Launch(L) ==
    \/ \E l \in L, v \in Variants, u \in Users : LaunchRejected(l, v, u)
    \/ \E l \in L, v \in Variants, u \in Users : LaunchInvalid(l, v, u)
    \/ \E l \in L, v \in Variants, u \in Users :
          \E n \in ContentCounts(v) : LaunchCreate(l, v, u, n)
    \/ \E l \in L : LaunchPoolMissing(l)
    \/ \E l \in L : LaunchEnqueue(l)
    \/ \E l \in L : LaunchEnqueueFail(l)
    \/ \E l \in L : LaunchStoreJobId(l)

\* The worker process running the queued jobs.
Worker ==
    \/ \E j \in 1..Len(jobs) : WorkerStart(j)
    \/ \E j \in 1..Len(jobs) : WorkerFinish(j)
    \/ \E j \in 1..Len(jobs) : WorkerException(j)
    \/ \E j \in 1..Len(jobs) : WorkerExceptionWriteFails(j)
    \/ \E j \in 1..Len(jobs) : WorkerTimeout(j)

Callback ==
    \E id \in Ids(entities), s \in CallbackSecrets,
       err \in CallbackErrors, c \in CallbackContents :
          n8n_callback(id, s[1], s[2], err, c)

NextEntity == Launch(1..NumLaunches) \/ Worker \/ Callback

\* The worker process polls the queue for as long as it runs: a job that
\* stays queued or running is eventually taken one step further.
SpecEntityFair ==
    InitFunded /\ [][NextEntity]_vars /\ WF_vars(Worker)

SpecEntity == InitFunded /\ [][NextEntity]_vars

ServiceContents == {NULL, "content"}

ServiceErrors == {NULL, "error"}

NextService ==
    \/ \E v \in Variants, u \in Users :
          Len(entities) < NumLaunches /\ ServiceCreate(v, u)
    \/ \E id \in Ids(entities), st \in PlannerCampaignStatus,
          c \in ServiceContents, m \in ServiceErrors :
             ServiceUpdateStatus(id, st, c, m)

SpecService == InitFunded /\ [][NextService]_vars

\* The whole pipeline: one create-campaign request with its content pieces,
\* and one launch with its worker and the callbacks.
Next == CreateCampaign({1}) \/ ContentPieces \/ Launch({1}) \/ Worker \/ Callback

Spec == InitFunded /\ [][Next]_vars

\* The status reads of the users, with every outcome of the two queue calls.
StatusRead ==
    \E u \in Users, id \in 1..Len(entities),
       q \in {"raises", "queued", "in_progress", "complete", "not_found"},
       r \in {NULL, "success", "failed"}, t \in TimesElapsed :
          GetJobStatus(u, id, q, r, t)

\* One launch with its worker and the callbacks, read through the status
\* routes.
NextStatus == Launch({1}) \/ Worker \/ Callback \/ StatusRead

SpecStatus == InitFunded /\ [][NextStatus]_vars

(***************************************************************************)
(* Properties of the credit ledger, checked under SpecLedger.              *)
(***************************************************************************)
Requests == 1..NumRequests

Total(u) == users[u].monthly_credits_video + users[u].extra_credits_video

Succeeded(r) ==
    req[r].pc = "handoff" \/ (req[r].pc = "done" /\ req[r].http = 200)

RECURSIVE SpentUpTo(_, _)
\* Sum of the costs of the succeeded requests 1..n of user u.
SpentUpTo(u, n) ==
    IF n = 0 THEN 0
    ELSE SpentUpTo(u, n - 1)
         + (IF Succeeded(n) /\ req[n].user = u THEN req[n].cost ELSE 0)

Spent(u) == SpentUpTo(u, NumRequests)

\* Request r commits in this step.
Commits(r) == req[r].pc = "deducted" /\ req'[r].pc = "handoff"

\* Request r takes its first step in this step.
Starts(r) == req[r].pc = "idle" /\ req'[r].pc # "idle"

\* C1: a successful create-campaign of a user who had monthly + extra >= cost
\* when the request read the balance leaves monthly' = max(0, monthly - cost),
\* extra' = extra - max(0, cost - monthly), and the sum lowered by the cost.
C1_DeductionArithmetic ==
    [][\A r \in Requests :
          Commits(r) =>
             LET u == req[r].user
                 m == req[r].seen_monthly
                 e == req[r].seen_extra
                 c == req[r].cost
             IN  m + e >= c =>
                   /\ users'[u].monthly_credits_video = Max(0, m - c)
                   /\ users'[u].extra_credits_video = e - Max(0, c - m)
                   /\ users'[u].monthly_credits_video
                        + users'[u].extra_credits_video = m + e - c]_vars

\* C2: a request that passes the gate while monthly + extra < cost is
\* answered 402, changes no counter and persists no campaign; it never goes
\* on to the deduction.
C2_InsufficientRejected ==
    [][\A r \in Requests :
          Starts(r) =>
             LET u == req'[r].user
                 c == req'[r].cost
             IN  (/\ requires_feature(users[u], "access_marketing")
                  /\ users[u].monthly_credits_video
                       + users[u].extra_credits_video < c)
                 => /\ req'[r].pc = "done"
                    /\ req'[r].http = 402
                    /\ users' = users
                    /\ marketing_campaigns' = marketing_campaigns]_vars

\* C2 witness: a request was answered 402 for a user holding some credits,
\* and no campaign exists.
C2_Witness ==
    \E r \in Requests :
       /\ req[r].http = 402
       /\ Total(req[r].user) > 0
       /\ Total(req[r].user) < req[r].cost
       /\ marketing_campaigns = <<>>

\* C3: when requests of one user interleave, the costs of those that
\* succeeded sum to at most the balance before any of them, and the final
\* total is that balance minus the sum (stated for non-negative costs).
C3_NoDoubleSpend ==
    \A u \in Users :
       (\A r \in Requests : Succeeded(r) /\ req[r].user = u => req[r].cost >= 0)
       => /\ Spent(u) <= ledger0[u].monthly + ledger0[u].extra
          /\ Total(u) = ledger0[u].monthly + ledger0[u].extra - Spent(u)

C5_NonNegative ==
    \A u \in Users :
       /\ users[u].monthly_credits_video >= 0
       /\ users[u].extra_credits_video >= 0

\* C5 witness: two requests of one user succeeded with positive costs and
\* drained both counters to zero.
C5_Witness ==
    \E r1, r2 \in Requests :
       /\ r1 # r2
       /\ Succeeded(r1) /\ Succeeded(r2)
       /\ req[r1].user = req[r2].user
       /\ req[r1].cost > 0 /\ req[r2].cost > 0
       /\ users[req[r1].user].monthly_credits_video = 0
       /\ users[req[r1].user].extra_credits_video = 0
       /\ ledger0[req[r1].user].monthly > 0
       /\ ledger0[req[r1].user].extra > 0

(***************************************************************************)
(* Properties of the whole pipeline, checked under Spec.                   *)
(***************************************************************************)
Credits(u) ==
    <<users[u].monthly_credits_video, users[u].extra_credits_video>>

\* The effective feature flag, read off the plan matrix and the overrides.
HasFeature(u, feature_key) ==
    IF feature_key \in DOMAIN users[u].features
    THEN FeatureTruthy(users[u].features[feature_key])
    ELSE /\ feature_key \in DOMAIN PLAN_FEATURE_MATRIX[users[u].plan_tier]
         /\ FeatureTruthy(PLAN_FEATURE_MATRIX[users[u].plan_tier][feature_key])

\* The tier of user u is at least the tier the variant's endpoint demands.
HasPlan(u, variant) ==
    \/ users[u].plan_tier = "PARTNER"
    \/ users[u].plan_tier = "CEREBRO" /\ variant \in {"plan", "query"}

\* Launch l takes its first step in this step.
LaunchStarts(l) == launches[l].pc = "idle" /\ launches'[l].pc # "idle"

\* C6: the gate runs before any deduction or entity creation: a request the
\* gate rejects is answered 403 and changes no counter, campaign, entity or
\* job, and only users who pass the gate reach the deduction of
\* create-campaign or get an entity of new-campaign, launch-monthly-campaign
\* or launch-query.
C6_GateFirst ==
    [][/\ \A r \in Requests :
             Starts(r) =>
                /\ ~ HasFeature(req'[r].user, "access_marketing")
                      => req'[r].http = 403
                /\ req'[r].http = 403
                      => /\ users' = users
                         /\ marketing_campaigns' = marketing_campaigns
                         /\ entities' = entities
                /\ req'[r].pc = "deducted"
                      => HasFeature(req'[r].user, "access_marketing")
       /\ \A l \in 1..NumLaunches :
             (LaunchStarts(l) /\ launches'[l].http = 403)
                => /\ users' = users
                   /\ marketing_campaigns' = marketing_campaigns
                   /\ entities' = entities
                   /\ jobs' = jobs
       /\ Len(entities') > Len(entities)
             => LET e == entities'[Len(entities')]
                IN  HasPlan(e.user_id, e.variant)
       /\ Len(marketing_campaigns') > Len(marketing_campaigns)
             => HasFeature(marketing_campaigns'[Len(marketing_campaigns')].user_id,
                           "access_marketing")]_vars

\* C6 witness: a create-campaign request and a launch were both answered
\* 403; no campaign and no entity exist and every balance is the initial one.
C6_Witness ==
    /\ req[1].http = 403
    /\ \E l \in 1..NumLaunches : launches[l].http = 403
    /\ marketing_campaigns = <<>>
    /\ entities = <<>>
    /\ jobs = <<>>
    /\ \A u \in Users : Credits(u) = <<ledger0[u].monthly, ledger0[u].extra>>

\* C7: credits are spent once, at the commit of create-campaign: no other
\* step (hand-off to the workflow engine, save-plan, update-media, launch,
\* worker status update, callback) changes a credit counter of any user.
C7_SpentOnce ==
    [][\A u \in Users :
          Credits(u)' # Credits(u)
             => \E r \in Requests : Commits(r) /\ req[r].user = u]_vars

\* C7 witness: a campaign was charged, its hand-off failed, its plan was
\* saved and a piece got its media, a worker finished an entity and a
\* callback was accepted; the balance is the initial one minus the cost.
C7_Witness ==
    /\ req[1].pc = "done" /\ req[1].http = 200 /\ req[1].cost > 0
    /\ req[1].handoff = "failed"
    /\ \E p \in 1..Len(content_pieces) : content_pieces[p].status = "COMPLETED"
    /\ \E j \in 1..Len(jobs) : jobs[j].pc = "complete"
    /\ cb.code = 200
    /\ Total(req[1].user)
          = ledger0[req[1].user].monthly + ledger0[req[1].user].extra - req[1].cost

(***************************************************************************)
(* Properties of the status machine.                                       *)
(***************************************************************************)
Terminal == {"completed", "failed", "cancelled"}

\* The edges of the fixed graph, FAILED reachable from non-terminal states.
GraphEdges ==
    {<<"pending", "in_progress">>, <<"in_progress", "processing_remote">>,
     <<"processing_remote", "review_ready">>, <<"review_ready", "completed">>,
     <<"in_progress", "completed">>, <<"processing_remote", "completed">>}
    \cup {<<s, "failed">> : s \in PlannerCampaignStatus \ Terminal}

\* The allowed-transition table of the status update: the graph, and FAILED
\* from every status but FAILED.
AllowedTransitions ==
    GraphEdges \cup {<<s, "failed">> : s \in PlannerCampaignStatus \ {"failed"}}

\* C8 (checked under SpecService): a status update from s to another status
\* s' that is not in the allowed-transition table fails and leaves the
\* entity unchanged; an update to FAILED from a non-FAILED status succeeds.
C8_TransitionGuard ==
    [][\A id \in 1..Len(entities) :
          svc'.id = id =>
             /\ (/\ svc'.status # entities[id].status
                 /\ <<entities[id].status, svc'.status>> \notin AllowedTransitions)
                   => svc'.raised /\ entities' = entities
             /\ (svc'.status = "failed" /\ entities[id].status # "failed")
                   => ~ svc'.raised /\ entities'[id].status = "failed"]_vars

\* C9 (checked under SpecEntity): in every interleaving of launch, worker
\* and callbacks each change of a persisted status is an edge of the fixed
\* graph; in particular no entity goes from PENDING to COMPLETED directly.
C9_GraphEdgesOnly ==
    [][\A id \in 1..Len(entities) :
          entities'[id].status # entities[id].status
             => <<entities[id].status, entities'[id].status>> \in GraphEdges]_vars

\* C10 (checked under SpecEntity): FAILED is absorbing: once an entity is
\* FAILED no later write changes its status, result payload or error message.
C10_FailedAbsorbing ==
    [][\A id \in 1..Len(entities) :
          entities[id].status = "failed"
             => /\ entities'[id].status = "failed"
                /\ entities'[id].generated_content = entities[id].generated_content
                /\ entities'[id].error_message = entities[id].error_message]_vars

\* C11 (checked under SpecEntity): in every reachable state the result
\* payload of an entity is non-null only if its status is COMPLETED or
\* REVIEW_READY, and its error message is non-null only if its status is
\* FAILED.
C11_PayloadMatchesStatus ==
    \A id \in 1..Len(entities) :
       /\ entities[id].generated_content # NULL
             => entities[id].status \in {"completed", "review_ready"}
       /\ entities[id].error_message # NULL
             => entities[id].status = "failed"

C13_HandleAndInProgressOnReturn ==
    [][\A l \in 1..NumLaunches :
          (launches[l].pc = "enqueued" /\ launches'[l].pc = "done")
             => /\ entities'[launches[l].entity_id].arq_job_id
                      = launches[l].job_id
                /\ entities'[launches[l].entity_id].status
                      = "in_progress"]_vars

C15_EnqueueFailureStill202 ==
    [][\A l \in 1..NumLaunches :
          (/\ launches[l].pc = "created"
           /\ settings.arq_pool
           /\ launches'[l].pc = "done"
           /\ jobs' = jobs)
             => launches'[l].http = 202]_vars

\* C16 (checked under SpecEntity): the worker never updates the status of an
\* entity whose job handle is still null.
C16_HandleBeforeWorkerWrite ==
    [][\A j \in 1..Len(jobs) :
          (jobs'[j].pc # jobs[j].pc
           /\ entities'[jobs[j].entity_id].status
                 # entities[jobs[j].entity_id].status)
             => entities[jobs[j].entity_id].arq_job_id # NULL]_vars

\* C17 (checked under SpecEntity): whenever a step of a running worker task
\* raises, the entity's persisted status becomes FAILED with the exception's
\* message and the task returns a failure result.
C17_WorkerExceptionMarksFailed ==
    [][\A j \in 1..Len(jobs) :
          (jobs[j].pc = "running" /\ jobs'[j].result \in {"failed", "cancelled"})
             => /\ entities'[jobs[j].entity_id].status = "failed"
                /\ entities'[jobs[j].entity_id].error_message = "worker error"
                /\ jobs'[j].result = "failed"]_vars

\* C18 (checked under SpecEntityFair): every entity that a worker has moved to
\* IN_PROGRESS eventually reaches COMPLETED or FAILED.
C18_InProgressEventuallyTerminal ==
    \A id \in 1..NumLaunches :
       (Len(entities) >= id /\ entities[id].status = "in_progress")
          ~> (Len(entities) >= id
              /\ entities[id].status \in {"completed", "failed"})

C20_WrongSecretRejected ==
    [][(/\ cb' # cb
        /\ Truthy(settings.INTERNAL_WEBHOOK_SECRET)
        /\ cb'.provided_secret # settings.INTERNAL_WEBHOOK_SECRET)
          => (cb'.code = 401 /\ entities' = entities)]_vars

\* C20 witness: a callback presenting a wrong secret has been answered 401
\* while a monthly plan that the worker moved to IN_PROGRESS exists.
C20_Witness ==
    /\ cb.code = 401
    /\ cb.provided_secret = "wrong"
    /\ \E id \in 1..Len(entities) :
          /\ entities[id].variant = "plan"
          /\ entities[id].status = "in_progress"

Authenticated(s) ==
    /\ Truthy(settings.INTERNAL_WEBHOOK_SECRET)
    /\ (IF Truthy(s[1]) THEN s[1] ELSE s[2]) = settings.INTERNAL_WEBHOOK_SECRET

\* C22 (checked under SpecStatus): an authenticated callback for an existing
\* entity that carries an error leaves the entity FAILED with exactly that
\* error as error message and with the result payload it had before.
C22_ErrorCallbackMarksFailed ==
    [][\A id \in Ids(entities), s \in CallbackSecrets,
          err \in CallbackErrors, c \in CallbackContents :
          (/\ Authenticated(s)
           /\ CallbackFinds(id)
           /\ Truthy(err)
           /\ n8n_callback(id, s[1], s[2], err, c))
             => /\ entities'[id].status = "failed"
                /\ entities'[id].error_message = err
                /\ entities'[id].generated_content
                      = entities[id].generated_content]_vars

\* C22 witness: an error callback has been acknowledged for a monthly plan
\* that already held a result payload: the plan is FAILED with the callback's
\* error and still holds the payload.
C22_Witness ==
    /\ cb.code = 200
    /\ ~ cb.success
    /\ \E id \in 1..Len(entities) :
          /\ entities[id].variant = "plan"
          /\ entities[id].status = "failed"
          /\ entities[id].error_message = "n8n error"
          /\ entities[id].generated_content # NULL

C25_MalformedAndUnknownRejected ==
    [][\A id \in Ids(entities), s \in CallbackSecrets,
          err \in CallbackErrors, c \in CallbackContents :
          (Authenticated(s) /\ n8n_callback(id, s[1], s[2], err, c))
             => /\ (CallbackFinds(id) /\ ~ Truthy(err) /\ ~ Truthy(c))
                      => (cb'.code = 400 /\ entities' = entities)
                /\ ~ Exists(id)
                      => (cb'.code = 404 /\ entities' = entities)]_vars

\* C25 witness: a callback with the right secret has been answered 400 while
\* a monthly plan that it could name is still pending.
C25_Witness ==
    /\ cb.code = 400
    /\ cb.provided_secret = settings.INTERNAL_WEBHOOK_SECRET
    /\ \E id \in 1..Len(entities) :
          /\ entities[id].variant = "plan"
          /\ entities[id].status = "pending"
          /\ entities[id].generated_content = NULL

Reconciled(id) ==
    /\ svc' # svc
    /\ "code" \in DOMAIN svc'
    /\ svc'.code = 200
    /\ svc'.id = id
    /\ settings.arq_pool

\* C27 (checked under SpecStatus): for an entity with no job handle the
\* status read returns the persisted status verbatim, with progress 100 if
\* that status is terminal and progress 0 otherwise.
C27_NoHandlePersistedStatus ==
    [][\A id \in 1..Len(entities) :
          (Reconciled(id) /\ ~ Truthy(entities[id].arq_job_id))
             => /\ svc'.job_status = entities[id].status
                /\ svc'.progress
                      = IF entities[id].status \in Terminal THEN 100 ELSE 0]_vars

ReadWith(id, job_status) ==
    /\ Reconciled(id)
    /\ Truthy(entities[id].arq_job_id)
    /\ \E r \in {NULL, "success", "failed"}, t \in TimesElapsed :
          GetJobStatus(entities[id].user_id, id, job_status, r, t)

\* C28 (checked under SpecStatus): for a COMPLETED entity whose job handle
\* the queue reports as not found, the status read returns progress 100 and
\* the persisted result payload, and reports no error.
C28_CompletedNotFoundReads100 ==
    [][\A id \in 1..Len(entities) :
          (ReadWith(id, "not_found") /\ entities[id].status = "completed")
             => /\ svc'.progress = 100
                /\ svc'.result = entities[id].generated_content
                /\ svc'.error = NULL]_vars

\* C29 (checked under SpecStatus): whenever the queue has no record of the
\* job or the queue query raises, the status read returns the persisted
\* status, result and error message, with progress 100 if the persisted
\* status is COMPLETED, 50 if it is IN_PROGRESS and 0 otherwise.
C29_FallbackTable ==
    [][\A id \in 1..Len(entities), q \in {"not_found", "raises"} :
          ReadWith(id, q)
             => /\ svc'.job_status = entities[id].status
                /\ svc'.result = entities[id].generated_content
                /\ Truthy(entities[id].error_message)
                      => svc'.error = entities[id].error_message
                /\ svc'.progress
                      = IF entities[id].status = "completed" THEN 100
                        ELSE IF entities[id].status = "in_progress" THEN 50
                        ELSE 0]_vars

\* C30 (checked under SpecStatus): for an entity with a job handle and a live
\* queue record, the status read maps the state of the job: waiting gives
\* queued with progress 0; running gives in_progress with progress
\* min(99, elapsed * 100 / expected duration), never 100; finished gives
\* complete with progress 100 and the live result or the persisted payload;
\* failed gives failed with progress 100 and an error.
C30_LiveRecordMapping ==
    [][\A id \in 1..Len(entities), q \in {"queued", "in_progress", "complete"} :
          ReadWith(id, q)
             => LET e == entities[id]
                    j == JobOf(e.arq_job_id)
                IN
                /\ jobs[j].pc = "queued"
                      => (svc'.job_status = "queued" /\ svc'.progress = 0)
                /\ jobs[j].pc = "running"
                      => /\ svc'.job_status = "in_progress"
                         /\ svc'.progress # 100
                         /\ \A t \in TimesElapsed :
                               GetJobStatus(e.user_id, id, q, NULL, t)
                                  => svc'.progress
                                        = Min(99, (t * 100)
                                                  \div estimated_total_time(e))
                /\ (jobs[j].pc = "complete" /\ jobs[j].result # "cancelled")
                      => /\ svc'.job_status = "complete"
                         /\ svc'.progress = 100
                         /\ svc'.result
                               \in {jobs[j].result, e.generated_content}
                /\ (jobs[j].pc = "complete" /\ jobs[j].result = "cancelled")
                      => /\ svc'.job_status = "failed"
                         /\ svc'.progress = 100
                         /\ svc'.error # NULL]_vars

(***************************************************************************)
(* Entity reads: GET /campaigns, GET /campaigns/{id} and their query       *)
(* counterparts, with the services' get_campaign / get_query and           *)
(* list_campaigns / list_queries.  A table holds the rows of one variant.  *)
(***************************************************************************)
DefaultLimit == 50

\* select(X).where(X.user_id == user_id).order_by(X.created_at.desc())
\* .limit(limit).offset(offset): the ids of the caller's rows, newest first.
list_campaigns(variant, u, limit, offset) ==
    LET rows == {i \in 1..Len(entities) :
                    entities[i].variant = variant /\ entities[i].user_id = u}
        newest == [k \in 1..Cardinality(rows) |->
                      CHOOSE i \in rows :
                         Cardinality({j \in rows : j > i}) = k - 1]
    IN  SubSeq(newest, offset + 1, Min(offset + limit, Len(newest)))

\* The plan gate of the get and list routes: 403 below the variant's tier.
ReadDependencies(variant, u) ==
    IF ~ requires_plan(users[u], MinPlan(variant)) THEN 403 ELSE 0

\* The answer of a get route: the status code, the id of the path and the
\* row of the response body (none in an error answer, whose detail names
\* only the id of the path).
EntityResponse(code, id, rows) == [code |-> code, id |-> id, rows |-> rows]

\* The answer of a list route: the rows and their count.
ListResponse(code, rows) == [code |-> code, campaigns |-> rows, total |-> Len(rows)]

\* GET /campaigns/{id} or /queries/{id} by user u on the table of variant.
GetCampaign(variant, u, id) ==
    /\ svc' =
          IF ReadDependencies(variant, u) # 0
          THEN EntityResponse(ReadDependencies(variant, u), id, <<>>)
          ELSE IF get_campaign(variant, u, id) = 0
          THEN EntityResponse(404, id, <<>>)
          ELSE EntityResponse(200, id, <<entities[id]>>)
    /\ UNCHANGED <<settings, users, ledger0, ledger_state, entities, jobs,
                   launches, cb>>

\* GET /campaigns or /queries by user u on the table of variant.
ListCampaigns(variant, u, limit, offset) ==
    /\ svc' =
          IF ReadDependencies(variant, u) # 0
          THEN ListResponse(ReadDependencies(variant, u), <<>>)
          ELSE ListResponse(200,
                  [k \in 1..Len(list_campaigns(variant, u, limit, offset)) |->
                      entities[list_campaigns(variant, u, limit, offset)[k]]])
    /\ UNCHANGED <<settings, users, ledger0, ledger_state, entities, jobs,
                   launches, cb>>

\* GET /campaigns/{id}/status or /queries/{id}/status by user u for an id
\* that the table of variant does not hold: the dependencies, then the
\* lookup that finds no row.
GetJobStatusNotFound(variant, u, id) ==
    /\ ~ (Exists(id) /\ entities[id].variant = variant)
    /\ svc' =
          IF LaunchDependencies(variant, u) # 0
          THEN StatusResponse(LaunchDependencies(variant, u), id, NoData)
          ELSE StatusResponse(404, id, NoData)
    /\ UNCHANGED <<settings, users, ledger0, ledger_state, entities, jobs,
                   launches, cb>>

Limits == {1, DefaultLimit}

Offsets == {0, 1}

EntityReads ==
    \/ \E v \in Variants, u \in Users, id \in Ids(entities) :
          GetCampaign(v, u, id)
    \/ \E v \in Variants, u \in Users, n \in Limits, o \in Offsets :
          ListCampaigns(v, u, n, o)
    \/ \E v \in Variants, u \in Users, id \in Ids(entities) :
          GetJobStatusNotFound(v, u, id)

\* Rows created through the services, read through the get, list and
\* status routes.  No row of this specification has a job handle, so the
\* status reads never consult the queue.
NextReads ==
    \/ \E v \in Variants, u \in Users :
          Len(entities) < MaxRows /\ ServiceCreate(v, u)
    \/ EntityReads
    \/ \E u \in Users, id \in 1..Len(entities) :
          GetJobStatus(u, id, "queued", NULL, 0)

SpecReads == InitFunded /\ [][NextReads]_vars

(***************************************************************************)
(* C31: entity reads are owner-scoped.  Once the route's dependencies      *)
(* pass, a get or a status request of user u for a row of another user is  *)
(* answered exactly as a request for an id the table does not hold: 404    *)
(* with nothing of the row in the answer.  A list request of user u        *)
(* answers only rows of the route's table whose user_id is u.  Each part   *)
(* is written contrapositively: an answer other than the 404, or a list    *)
(* with a row of another owner or table, is the answer of no such request. *)
(***************************************************************************)
C31_OwnerScopedReads ==
    [][/\ ("rows" \in DOMAIN svc'
             /\ svc' # EntityResponse(404, svc'.id, <<>>)) =>
             \A v \in Variants, u \in Users :
                ~ (/\ ~ (Exists(svc'.id) /\ entities[svc'.id].variant = v
                           /\ entities[svc'.id].user_id = u)
                   /\ ReadDependencies(v, u) = 0
                   /\ GetCampaign(v, u, svc'.id))
       /\ ("job_id" \in DOMAIN svc'
             /\ svc' # StatusResponse(404, svc'.id, NoData)) =>
             \A v \in Variants, u \in Users :
                LET id == svc'.id
                    held == Exists(id) /\ entities[id].variant = v
                IN  /\ ~ (/\ held /\ entities[id].user_id # u
                          /\ LaunchDependencies(v, u) = 0
                          /\ \E q \in {"raises", "queued", "in_progress",
                                       "complete", "not_found"},
                                r \in {NULL, "success", "failed"},
                                t \in TimesElapsed :
                                   GetJobStatus(u, id, q, r, t))
                    /\ ~ (/\ ~ held /\ LaunchDependencies(v, u) = 0
                          /\ GetJobStatusNotFound(v, u, id))
       /\ "campaigns" \in DOMAIN svc' =>
             \A v \in Variants, u \in Users :
                (\A k \in 1..Len(svc'.campaigns) :
                    /\ svc'.campaigns[k].user_id = u
                    /\ svc'.campaigns[k].variant = v)
                \/ \A n \in Limits, o \in Offsets : ~ ListCampaigns(v, u, n, o)
      ]_vars

\* Two rows of one table with different owners, and a list answer that
\* holds only the row of its caller.
C31_Witness ==
    /\ Len(entities) = 2
    /\ entities[1].variant = entities[2].variant
    /\ entities[1].user_id # entities[2].user_id
    /\ svc = ListResponse(200, <<entities[2]>>)

(***************************************************************************)
(* The gate dependencies on their own: get_current_plan_features,          *)
(* requires_feature(key) and requires_plan(min_plan) for user rows of      *)
(* every tier with every override map over OverrideKeys.                   *)
(***************************************************************************)
OverrideKeys == {"access_mining", "max_chats", "dedicated_csm", "beta"}

FeatureValues == {"True", "False", "0"}

OverrideMaps == UNION {[K -> FeatureValues] : K \in SUBSET OverrideKeys}

\* The keys of the feature matrix.
FeatureKeys == UNION {DOMAIN PLAN_FEATURE_MATRIX[t] : t \in PlanTier}

\* The first user's row holds any tier and any override map.
InitGate ==
    /\ settings = Configured
    /\ \E t \in PlanTier, ov \in OverrideMaps :
          users = [u \in Users |->
                     [plan_tier |-> IF u = 1 THEN t
                                    ELSE UserProfiles[u].plan_tier,
                      features |-> IF u = 1 THEN ov
                                   ELSE UserProfiles[u].features,
                      monthly_credits_video |-> 1,
                      extra_credits_video |-> 1]]
    /\ ledger0 = [u \in Users |-> [monthly |-> 1, extra |-> 1]]
    /\ marketing_campaigns = <<>>
    /\ content_pieces = <<>>
    /\ req = [r \in 1..NumRequests |-> IdleRequest]
    /\ entities = <<>>
    /\ jobs = <<>>
    /\ launches = [l \in 1..NumLaunches |-> IdleLaunch]
    /\ cb = NoCallback
    /\ svc = NoCall

\* A call of a gate dependency for user u: the errors it raised, none when
\* it returned the user.
GateCall(u, errors) == [user |-> u, raised |-> errors]

GetCurrentPlanFeatures(u) ==
    /\ svc' = [user |-> u, features |-> merge_features(users[u])]
    /\ UNCHANGED <<settings, users, ledger0, ledger_state, entities, jobs,
                   launches, cb>>

RequiresFeature(u, feature_key) ==
    /\ svc' = IF requires_feature(users[u], feature_key)
              THEN GateCall(u, <<>>)
              ELSE GateCall(u, <<requires_feature_error(feature_key)>>)
    /\ UNCHANGED <<settings, users, ledger0, ledger_state, entities, jobs,
                   launches, cb>>

RequiresPlan(u, min_plan) ==
    /\ svc' = IF requires_plan(users[u], min_plan)
              THEN GateCall(u, <<>>)
              ELSE GateCall(u, <<FeatureForbiddenError("plan_access", min_plan)>>)
    /\ UNCHANGED <<settings, users, ledger0, ledger_state, entities, jobs,
                   launches, cb>>

NextGate ==
    \/ \E u \in Users : GetCurrentPlanFeatures(u)
    \/ \E u \in Users, k \in FeatureKeys : RequiresFeature(u, k)
    \/ \E u \in Users, t \in PlanTier : RequiresPlan(u, t)

SpecGate == InitGate /\ [][NextGate]_vars

(***************************************************************************)
(* C32: the effective feature map of a user is the base matrix of the      *)
(* user's tier overlaid key by key with the user's override map: its keys  *)
(* are the keys of both, a key of the override holds the override's value  *)
(* and every other key holds the tier's base value.                        *)
(***************************************************************************)
C32_OverrideWinsKeyByKey ==
    [][\A u \in Users :
          GetCurrentPlanFeatures(u) =>
             LET base == PLAN_FEATURE_MATRIX[users[u].plan_tier]
                 ov   == users[u].features
             IN  /\ DOMAIN svc'.features = DOMAIN base \cup DOMAIN ov
                 /\ \A k \in DOMAIN svc'.features :
                       svc'.features[k] =
                          IF k \in DOMAIN ov THEN ov[k] ELSE base[k]
      ]_vars

\* The merged map of a CEREBRO user whose override switches access_mining
\* off and adds a key the matrix does not hold.
C32_Witness ==
    /\ "features" \in DOMAIN svc
    /\ svc.user = 1
    /\ users[1].plan_tier = "CEREBRO"
    /\ users[1].features = [access_mining |-> "False", beta |-> "True"]
    /\ svc.features.access_mining = "False"
    /\ svc.features.beta = "True"
    /\ svc.features.access_marketing = "True"

\* The tiers whose base matrix grants the key.
Grants(feature_key) ==
    {t \in PlanTier :
        /\ feature_key \in DOMAIN PLAN_FEATURE_MATRIX[t]
        /\ FeatureTruthy(PLAN_FEATURE_MATRIX[t][feature_key])}

\* Pairs of the order MOTOR < CEREBRO < PARTNER.
Below ==
    {<<"MOTOR", "CEREBRO">>, <<"MOTOR", "PARTNER">>, <<"CEREBRO", "PARTNER">>}

(***************************************************************************)
(* C33: requires_feature(key) rejects a user exactly when the user's       *)
(* merged feature map holds no truthy value for key, and the rejection     *)
(* names key and the lowest tier of MOTOR < CEREBRO < PARTNER whose base   *)
(* matrix grants key.  The keys are those of the feature matrix.           *)
(***************************************************************************)
C33_FeatureGate ==
    [][\A u \in Users, k \in FeatureKeys :
          RequiresFeature(u, k) =>
             /\ (svc'.raised # <<>>) <=> ~ HasFeature(u, k)
             /\ svc'.raised # <<>> =>
                   /\ Len(svc'.raised) = 1
                   /\ svc'.raised[1].feature = k
                   /\ svc'.raised[1].required_plan \in Grants(k)
                   /\ \A t \in Grants(k) :
                         <<t, svc'.raised[1].required_plan>> \notin Below
      ]_vars

\* A PARTNER user whose override switches dedicated_csm off is rejected,
\* and the rejection names PARTNER, the only tier that grants the key.
C33_Witness ==
    /\ users[1].plan_tier = "PARTNER"
    /\ "dedicated_csm" \in DOMAIN users[1].features
    /\ users[1].features["dedicated_csm"] = "False"
    /\ svc = GateCall(1, <<FeatureForbiddenError("dedicated_csm", "PARTNER")>>)

(***************************************************************************)
(* C34: requires_plan(min_tier) rejects a user exactly when the user's     *)
(* tier is strictly below min_tier in MOTOR < CEREBRO < PARTNER, and the   *)
(* rejection names min_tier as the required tier; a user who passes the    *)
(* gate of a tier passes the gate of every tier at or below it.            *)
(***************************************************************************)
C34_PlanGate ==
    [][\A u \in Users, t \in PlanTier :
          RequiresPlan(u, t) =>
             /\ (svc'.raised # <<>>) <=> <<users[u].plan_tier, t>> \in Below
             /\ svc'.raised # <<>> =>
                   svc'.raised = <<FeatureForbiddenError("plan_access", t)>>
             /\ svc'.raised = <<>> =>
                   \A t2 \in PlanTier :
                      (t2 = t \/ <<t2, t>> \in Below)
                         => requires_plan(users[u], t2)
      ]_vars

\* A CEREBRO user is rejected by the PARTNER gate, which names PARTNER.
C34_Witness ==
    /\ users[1].plan_tier = "CEREBRO"
    /\ svc = GateCall(1, <<FeatureForbiddenError("plan_access", "PARTNER")>>)

(***************************************************************************)
(* C35 (checked under SpecStatus): in every reachable state an entity      *)
(* whose status is COMPLETED has a completed_at and a result payload,      *)
(* whether a worker or the callback completed it.                          *)
(***************************************************************************)
C35_CompletedHasTimestampAndPayload ==
    \A id \in 1..Len(entities) :
       entities[id].status = "completed"
          => /\ entities[id].completed_at # NULL
             /\ entities[id].generated_content # NULL

\* A query that its worker completed: the job's record is a success and the
\* row holds the worker's results and the completion time.
C35_Witness ==
    \E j \in 1..Len(jobs) :
       /\ jobs[j].result = "success"
       /\ entities[jobs[j].entity_id].variant = "query"
       /\ entities[jobs[j].entity_id].status = "completed"
       /\ entities[jobs[j].entity_id].generated_content = "generated"
       /\ entities[jobs[j].entity_id].completed_at = Now

(***************************************************************************)
(* C36 (checked under SpecEntity): when a launch handler that has          *)
(* persisted an entity returns, with any response, the entity holds a job  *)
(* handle or is FAILED; it is not left PENDING with a null handle.         *)
(***************************************************************************)
C36_ReturnedLaunchHasHandleOrFailed ==
    [][\A l \in 1..NumLaunches :
          (/\ launches[l].entity_id # 0
           /\ launches[l].pc # "done"
           /\ launches'[l].pc = "done")
             => \/ entities'[launches[l].entity_id].arq_job_id # NULL
                \/ entities'[launches[l].entity_id].status = "failed"]_vars

(***************************************************************************)
(* C37 (checked under SpecEntity): once the callback has stored a result   *)
(* payload on a monthly plan, the plan's payload stays that payload in     *)
(* every later state; a worker still running for the plan does not replace *)
(* it with its own content when it finishes.  The callback's payloads are  *)
(* the values of CallbackContents, which no worker writes.                 *)
(***************************************************************************)
C37_CallbackPayloadKept ==
    [][\A id \in 1..Len(entities) :
          (/\ entities[id].variant = "plan"
           /\ entities[id].generated_content \in CallbackContents \ {NULL})
             => entities'[id].generated_content
                   = entities[id].generated_content]_vars

(***************************************************************************)
(* C38 (checked under SpecLedger): for every content_count the request     *)
(* model accepts, zero and negative values included, no step of a          *)
(* create-campaign request increases monthly_credits_video or              *)
(* extra_credits_video.                                                    *)
(***************************************************************************)
C38_CreditsNeverIncrease ==
    [][\A u \in Users :
          /\ users'[u].monthly_credits_video <= users[u].monthly_credits_video
          /\ users'[u].extra_credits_video <= users[u].extra_credits_video
      ]_vars

(***************************************************************************)
(* C39 (checked under SpecStatus): the callback checks the secret before   *)
(* it looks the campaign up.  On a configured server a callback with a     *)
(* wrong or missing secret is answered 401 with nothing written, and the   *)
(* answer is the same whether or not the campaign id exists and whatever   *)
(* the campaign's state.  Written contrapositively: a step with another    *)
(* answer, or with a write, is the step of no such callback.               *)
(***************************************************************************)
C39_SecretCheckedBeforeLookup ==
    [][(\/ cb' # [code |-> 401, success |-> FALSE,
                  provided_secret |-> cb'.provided_secret]
        \/ entities' # entities)
          => \A id \in Ids(entities), s \in CallbackSecrets,
                err \in CallbackErrors, c \in CallbackContents :
                   ~ (/\ Truthy(settings.INTERNAL_WEBHOOK_SECRET)
                      /\ ~ Authenticated(s)
                      /\ n8n_callback(id, s[1], s[2], err, c))]_vars

\* A callback with a wrong secret is answered 401 while no campaign exists:
\* the id it names is missing, and the answer is not 404.
C39_Witness ==
    /\ entities = <<>>
    /\ cb = [code |-> 401, success |-> FALSE, provided_secret |-> "wrong"]
====
